---- MODULE Spec2Model ----
(***************************************************************************)
(* A model of the WebClient of cl8n/node-web-client: the construction of  *)
(* clients, extend(), request() with its option filling and URL           *)
(* resolution, and the low-level transport function asyncRequest with the *)
(* events of the underlying HTTP(S) request.                               *)
(*                                                                         *)
(* JavaScript values are tagged records; a JavaScript string is the       *)
(* sequence of its characters, so that the regular expressions of the     *)
(* source are computed character by character.  An object is a function   *)
(* from the keys it has to their values: a key that is absent is not in   *)
(* the DOMAIN, a key that is present with the value undefined is.          *)
(***************************************************************************)
EXTENDS Integers, Sequences, FiniteSets, TLC

VARIABLES
    clients,     \* the WebClient instances constructed so far, in order
    requests,    \* the request() calls made so far, in order
    lastCall,    \* the most recent call of the public API and how it completed
    fillArgs,    \* the arguments of one call of fillRequestOptionDefaults
    fillResult,  \* the completion of that call
    transport    \* one call of asyncRequest: its promise, buffer and events

vars == <<clients, requests, lastCall, fillArgs, fillResult, transport>>

----------------------------------------------------------------------------
(* Bounds of the model.                                                    *)

\* WebClient instances plus request() calls in one behaviour.
MaxCalls == 3
\* Slashes put at the end of a base URL or at the start of a request URL.
MaxSlashes == 2
\* 'data' events of one response.
MaxChunks == 2

----------------------------------------------------------------------------
(* JavaScript values.                                                      *)

Undefined == [kind |-> "undefined"]
Null == [kind |-> "null"]
Str(chars) == [kind |-> "string", chars |-> chars]
Fn(name) == [kind |-> "function", name |-> name]
Err(name, message) == [kind |-> "error", name |-> name, message |-> message]

\* `x == null` / `x != null` of JavaScript: true of null and of undefined.
IsNullish(v) == v = Null \/ v = Undefined

\* a ?? b
Coalesce(a, b) == IF IsNullish(a) THEN b ELSE a

\* o.k: undefined when the object has no such key.
Get(o, k) == IF k \in DOMAIN o THEN o[k] ELSE Undefined

\* { ...a, ...b }: every key of b, present with any value, replaces a's.
Spread(a, b) ==
    [k \in (DOMAIN a) \cup (DOMAIN b) |-> IF k \in DOMAIN b THEN b[k] ELSE a[k]]

\* The objects with any subset of the keys of `fields`, each key present
\* with one of the values `fields` gives for it.
Objects(fields) ==
    UNION { { o \in [D -> UNION { fields[k] : k \in D }] :
                \A k \in D : o[k] \in fields[k] } :
            D \in SUBSET (DOMAIN fields) }

\* A promise: pending, or settled with a value (fulfilled) or a reason.
Pending == [state |-> "pending", value |-> Undefined]
Fulfilled(v) == [state |-> "fulfilled", value |-> v]
Rejected(e) == [state |-> "rejected", value |-> e]

\* The completion of a synchronous piece of code.
Return(v) == [threw |-> FALSE, value |-> v]
Throw(e) == [threw |-> TRUE, value |-> e]

----------------------------------------------------------------------------
(* Http.Method                                                             *)

Method_get == Str(<<"G", "E", "T">>)
Method_post == Str(<<"P", "O", "S", "T">>)
Method_put == Str(<<"P", "U", "T">>)

----------------------------------------------------------------------------
(* Strings and the regular expressions of the source.                      *)

Slashes(n) == [i \in 1..n |-> "/"]

StartsWith(s, prefix) ==
    Len(s) >= Len(prefix) /\ SubSeq(s, 1, Len(prefix)) = prefix

\* /^https?:/.test(url)
hasProtocol(url) ==
    \/ StartsWith(url, <<"h", "t", "t", "p", ":">>)
    \/ StartsWith(url, <<"h", "t", "t", "p", "s", ":">>)

\* url.startsWith('https:')
hasSecureProtocol(url) == StartsWith(url, <<"h", "t", "t", "p", "s", ":">>)

\* /\/*$/ matches at position i when everything from i to the end is a slash
\* (the empty match at the end included).
TrailingSlashesMatchAt(s, i) == \A j \in i..Len(s) : s[j] = "/"

\* A faulty variant of ReplaceTrailingSlashes: /\/?$/, which replaces one
\* trailing slash at most.
ReplaceOneTrailingSlash(s) ==
    IF s # <<>> /\ s[Len(s)] = "/" THEN s ELSE s \o <<"/">>

\* s.replace(/\/*$/, '/'): the leftmost match is replaced, once.
ReplaceTrailingSlashes(s) ==
    LET first == CHOOSE i \in 1..(Len(s) + 1) :
                     /\ TrailingSlashesMatchAt(s, i)
                     /\ \A j \in 1..(i - 1) : ~TrailingSlashesMatchAt(s, j)
    IN SubSeq(s, 1, first - 1) \o <<"/">>

\* /^\/+/ matches the longest run of slashes at the start, if there is one.
LeadingSlashesMatch(s) ==
    LET runs == { n \in 0..Len(s) : \A j \in 1..n : s[j] = "/" }
    IN CHOOSE n \in runs : \A m \in runs : m <= n

\* s.replace(/^\/+/, '')
RemoveLeadingSlashes(s) == SubSeq(s, LeadingSlashesMatch(s) + 1, Len(s))

----------------------------------------------------------------------------
(* The transport function of a client and the errors of the source.        *)

asyncRequestFn == Fn("asyncRequest")

\* limiter(asyncRequest): the function the caller's limiter returns.
ApplyLimiter(limiter, fn) == [kind |-> "function", name |-> "limited",
                              by |-> limiter, wraps |-> fn]

BaseUrlTypeError == Err("TypeError", "`baseUrl` doesn't include a protocol")
UrlTypeError ==
    Err("TypeError", "`url` doesn't include a protocol and `baseUrl` isn't set")

----------------------------------------------------------------------------
(* fillRequestOptionDefaults(options, clientOptions)                       *)

\* A faulty variant of fillRequestOptionDefaults: the url is checked but
\* never resolved against baseUrl.
fillWithoutResolution(options, clientOptions) ==
    LET newOptions ==
            Spread([method |-> Coalesce(Get(clientOptions, "defaultMethod"),
                                        Method_get)],
                   options)
    IN IF ~hasProtocol(options.url.chars)
          /\ IsNullish(Get(clientOptions, "baseUrl"))
       THEN Throw(UrlTypeError)
       ELSE Return(newOptions)

\* A faulty variant of fillRequestOptionDefaults: a baseUrl among the
\* request options stands in for a missing baseUrl of the client.
fillWithRequestBaseUrl(options, clientOptions) ==
    LET newOptions ==
            Spread([method |-> Coalesce(Get(clientOptions, "defaultMethod"),
                                        Method_get)],
                   options)
        baseUrl == Coalesce(Get(clientOptions, "baseUrl"),
                            Get(options, "baseUrl"))
    IN IF ~hasProtocol(options.url.chars)
       THEN IF IsNullish(baseUrl)
            THEN Throw(UrlTypeError)
            ELSE Return([newOptions EXCEPT !["url"] =
                     Str(ReplaceTrailingSlashes(baseUrl.chars)
                         \o RemoveLeadingSlashes(options.url.chars))])
       ELSE Return(newOptions)

fillRequestOptionDefaults(options, clientOptions) ==
    LET newOptions ==
            Spread([method |-> Coalesce(Get(clientOptions, "defaultMethod"),
                                        Method_get)],
                   options)
        baseUrl == Get(clientOptions, "baseUrl")
    IN IF ~hasProtocol(options.url.chars)
       THEN IF IsNullish(baseUrl)
            THEN Throw(UrlTypeError)
            ELSE Return([newOptions EXCEPT !["url"] =
                     Str(ReplaceTrailingSlashes(baseUrl.chars)
                         \o RemoveLeadingSlashes(options.url.chars))])
       ELSE Return(newOptions)

----------------------------------------------------------------------------
(* class WebClient                                                         *)

\* A faulty variant of the constructor: baseUrl is not checked.
WebClientUnchecked(options) ==
    Return([requestFn |->
                IF ~IsNullish(Get(options, "limiter"))
                THEN ApplyLimiter(Get(options, "limiter"), asyncRequestFn)
                ELSE asyncRequestFn,
            options |-> options])

\* new WebClient(options): throws, or returns the instance.
WebClient(options) ==
    IF ~IsNullish(Get(options, "baseUrl"))
       /\ ~hasProtocol(Get(options, "baseUrl").chars)
    THEN Throw(BaseUrlTypeError)
    ELSE Return([requestFn |->
                     IF ~IsNullish(Get(options, "limiter"))
                     THEN ApplyLimiter(Get(options, "limiter"), asyncRequestFn)
                     ELSE asyncRequestFn,
                 options |-> options])

\* A faulty variant of extendOptions: { ...options, ...this.options }.
extendOptionsParentWins(self, options) == Spread(options, self.options)

\* The options extend() constructs the new client with.
extendOptions(self, options) == Spread(self.options, options)

\* this.extend(options)
extend(self, options) == WebClient(extendOptions(self, options))

\* The call this.requestFn(url, { method }, undefined, secure) of request().
requestFnCall(self, filledOptions) ==
    [fn |-> self.requestFn,
     url |-> filledOptions.url,
     options |-> [method |-> filledOptions.method],
     body |-> Undefined,
     secure |-> hasSecureProtocol(filledOptions.url.chars)]

\* The part of request() that runs inside the call, up to its await: it
\* throws, or it has called requestFn once and waits for its promise.
requestStart(self, options) ==
    LET filled == fillRequestOptionDefaults(options, self.options)
    IN IF filled.threw
       THEN Throw(filled.value)
       ELSE Return([filledOptions |-> filled.value,
                    invocations |-> <<requestFnCall(self, filled.value)>>])

\* A faulty variant of AsyncFunctionCall: a function that is not async, and
\* throws to its caller what its body throws.
SyncFunctionCall(start) ==
    IF start.threw
    THEN Throw(start.value)
    ELSE Return([filledOptions |-> start.value.filledOptions,
                 invocations |-> start.value.invocations,
                 promise |-> Pending])

\* A call of an async function always returns a promise: what its body
\* throws before the first await rejects that promise.
AsyncFunctionCall(start) ==
    IF start.threw
    THEN Return([filledOptions |-> Undefined, invocations |-> <<>>,
                 promise |-> Rejected(start.value)])
    ELSE Return([filledOptions |-> start.value.filledOptions,
                 invocations |-> start.value.invocations,
                 promise |-> Pending])

\* A faulty variant of requestResume: the error of requestFn is caught and
\* wrapped in a new one.
requestResumeWrapped(req, outcome) ==
    IF outcome.state = "fulfilled"
    THEN Fulfilled(Spread(outcome.value,
                          [requestOptions |-> req.filledOptions]))
    ELSE Rejected(Err("Error", "request failed"))

\* The rest of request(), once the promise of requestFn has settled as
\* `outcome`: the promise request() returned settles with it.
requestResume(req, outcome) ==
    IF outcome.state = "fulfilled"
    THEN Fulfilled(Spread(outcome.value,
                          [requestOptions |-> req.filledOptions]))
    ELSE Rejected(outcome.value)

----------------------------------------------------------------------------
(* The calls a program makes, and what the transport answers.              *)

GoodBaseUrl == Str(<<"h", "t", "t", "p", "s", ":", "/", "/", "a", "/">>)
BadBaseUrl == Str(<<"/", "/", "a">>)
AbsoluteUrl == Str(<<"h", "t", "t", "p", ":", "/", "/", "b">>)
RelativeUrl == Str(<<"/", "c">>)

ClientOptionInputs ==
    Objects([baseUrl |-> {Undefined, GoodBaseUrl, BadBaseUrl},
             defaultMethod |-> {Method_post},
             limiter |-> {Fn("limiter")}])

RequestOptionInputs ==
    { Spread(o, [url |-> u]) :
        o \in Objects([method |-> {Undefined, Method_put}]),
        u \in {AbsoluteUrl, RelativeUrl} }
    \cup { [url |-> RelativeUrl, baseUrl |-> GoodBaseUrl] }

InternalResponses ==
    { [headers |-> <<>>, rawData |-> Str(<<"x">>), statusCode |-> 200,
       statusMessage |-> Str(<<"O", "K">>), trailers |-> <<>>] }

TransportErrors == { Err("Error", "ECONNRESET") }

NoCall == [op |-> "none", self |-> 0, args |-> <<>>, completion |-> Return(0)]

CanCall == Len(clients) + Len(requests) < MaxCalls

\* new WebClient(options)
Construct(options) ==
    /\ CanCall
    /\ LET c == WebClient(options)
       IN /\ clients' = IF c.threw THEN clients ELSE Append(clients, c.value)
          /\ lastCall' = [op |-> "new", self |-> 0, args |-> options,
                          completion |-> IF c.threw THEN c
                                         ELSE Return(Len(clients) + 1)]
    /\ UNCHANGED <<requests, fillArgs, fillResult, transport>>

\* clients[i].extend(options)
Extend(i, options) ==
    /\ CanCall
    /\ LET c == extend(clients[i], options)
       IN /\ clients' = IF c.threw THEN clients ELSE Append(clients, c.value)
          /\ lastCall' = [op |-> "extend", self |-> i, args |-> options,
                          completion |-> IF c.threw THEN c
                                         ELSE Return(Len(clients) + 1)]
    /\ UNCHANGED <<requests, fillArgs, fillResult, transport>>

\* clients[i].request(options)
Request(i, options) ==
    /\ CanCall
    /\ LET c == AsyncFunctionCall(requestStart(clients[i], options))
       IN /\ requests' =
                 IF c.threw THEN requests
                 ELSE Append(requests,
                             [self |-> i, options |-> options,
                              filledOptions |-> c.value.filledOptions,
                              invocations |-> c.value.invocations,
                              requestFnPromise |->
                                  IF c.value.invocations = <<>>
                                  THEN Undefined ELSE Pending,
                              promise |-> c.value.promise])
          /\ lastCall' = [op |-> "request", self |-> i, args |-> options,
                          completion |-> IF c.threw THEN c
                                         ELSE Return(Len(requests) + 1)]
    /\ UNCHANGED <<clients, fillArgs, fillResult, transport>>

\* The promise requestFn returned to request r settles, and request() resumes.
RequestFnSettles(r, outcome) ==
    /\ requests[r].requestFnPromise = Pending
    /\ requests' = [requests EXCEPT
                        ![r].requestFnPromise = outcome,
                        ![r].promise = requestResume(requests[r], outcome)]
    /\ UNCHANGED <<clients, lastCall, fillArgs, fillResult, transport>>

RequestFnFulfils(r) ==
    \E response \in InternalResponses : RequestFnSettles(r, Fulfilled(response))

RequestFnRejects(r) ==
    \E e \in TransportErrors : RequestFnSettles(r, Rejected(e))

NoFill == [called |-> FALSE]
NoTransport == [called |-> FALSE]

Init ==
    /\ clients = <<>>
    /\ requests = <<>>
    /\ lastCall = NoCall
    /\ fillArgs = NoFill
    /\ fillResult = NoFill
    /\ transport = NoTransport

Next ==
    \/ \E o \in ClientOptionInputs : Construct(o)
    \/ \E i \in 1..Len(clients), o \in ClientOptionInputs : Extend(i, o)
    \/ \E i \in 1..Len(clients), o \in RequestOptionInputs : Request(i, o)
    \/ \E r \in 1..Len(requests) : RequestFnFulfils(r)
    \/ \E r \in 1..Len(requests) : RequestFnRejects(r)

Spec == Init /\ [][Next]_vars

----------------------------------------------------------------------------
(* fillRequestOptionDefaults on its own, over many base and request URLs.  *)

HttpColon == <<"h", "t", "t", "p", ":">>
HttpsColon == <<"h", "t", "t", "p", "s", ":">>

\* Base URLs a client can hold: the constructor has accepted them.
BaseUrlStrings ==
    { p \o h \o Slashes(k) :
        p \in {HttpColon, HttpsColon},
        h \in {<<>>, <<"/", "/", "a">>, <<"/", "/", "a", "/", "b">>},
        k \in 0..MaxSlashes }

UrlStrings ==
    { Slashes(k) \o t :
        k \in 0..MaxSlashes,
        t \in {<<>>, <<"c">>, <<"c", "/", "d">>, <<"c", "/">>,
               <<"h", "t", "t", "p">>, HttpColon \o <<"/", "/", "b">>,
               HttpsColon \o <<"/", "/", "b", "/">>} }

FillClientOptionInputs ==
    { o \in Objects([baseUrl |-> {Undefined} \cup
                                   { Str(b) : b \in BaseUrlStrings },
                     defaultMethod |-> {Undefined, Method_post}]) :
        ~WebClient(o).threw }

FillOptionInputs ==
    { Spread(o, [url |-> Str(u)]) :
        o \in Objects([method |-> {Undefined, Method_put}]),
        u \in UrlStrings }

FillInit ==
    /\ clients = <<>>
    /\ requests = <<>>
    /\ lastCall = NoCall
    /\ fillArgs \in [called : {TRUE}, options : FillOptionInputs,
                     clientOptions : FillClientOptionInputs]
    /\ fillResult = NoFill
    /\ transport = NoTransport

Fill ==
    /\ ~fillResult.called
    /\ fillResult' =
           [called |-> TRUE,
            completion |-> fillRequestOptionDefaults(fillArgs.options,
                                                     fillArgs.clientOptions)]
    /\ UNCHANGED <<clients, requests, lastCall, fillArgs, transport>>

FillNext == Fill

SpecFill == FillInit /\ [][FillNext]_vars

----------------------------------------------------------------------------
(* asyncRequest(url, options, body, secure) and the events of its request. *)

\* A faulty variant of Settle: a later resolve or reject replaces the
\* outcome.
SettleAgain(promise, outcome) == outcome

\* resolve(value) and reject(reason) of a promise: the first one settles it,
\* the later ones do nothing.
Settle(promise, outcome) ==
    IF promise.state = "pending" THEN outcome ELSE promise

\* result += chunk
AppendChunk(result, chunk) == result \o chunk

\* The object the 'end' handler resolves with.
EndValue(response, result) ==
    [headers |-> response.headers,
     rawData |-> Str(result),
     statusCode |-> response.statusCode,
     statusMessage |-> response.statusMessage,
     trailers |-> response.trailers]

\* What the executor does with the body: one write with `reject` as its
\* callback when body != null, then request.end().
RequestOps(body) ==
    IF ~IsNullish(body) THEN <<[op |-> "write", chunk |-> body,
                                callback |-> "reject"],
                               [op |-> "end"]>>
    ELSE <<[op |-> "end"]>>

Chunks == {<<"x">>, <<"y">>}
BodyInputs == {Undefined, Null, Str(<<"b">>)}
IncomingMessage == [headers |-> <<>>, statusCode |-> 200,
                    statusMessage |-> Str(<<"O", "K">>), trailers |-> <<>>]
RequestError == Err("Error", "ECONNRESET")
ResponseError == Err("Error", "aborted")
WriteError == Err("Error", "EPIPE")
\* The argument of a write callback: an error, or nothing when the write
\* succeeded (null or undefined, depending on the stream implementation).
WriteSucceeded == {Undefined, Null}

TransportInit ==
    /\ clients = <<>>
    /\ requests = <<>>
    /\ lastCall = NoCall
    /\ fillArgs = NoFill
    /\ fillResult = NoFill
    /\ transport \in
           [called : {FALSE},
            url : {AbsoluteUrl},
            options : {[method |-> Method_get]},
            body : BodyInputs,
            secure : BOOLEAN,
            performRequest : {"none"},
            requestOps : {<<>>},
            writePending : {FALSE},
            responded : {FALSE},
            result : {<<>>},
            delivered : {<<>>},
            responseEnded : {FALSE},
            requestErrored : {FALSE},
            responseErrored : {FALSE},
            failures : {<<>>},
            failedBeforeEnd : {FALSE},
            promise : {Pending}]

TransportFrame == UNCHANGED <<clients, requests, lastCall, fillArgs, fillResult>>

\* The call of asyncRequest: the executor of its promise runs to its end.
AsyncRequestCall ==
    /\ ~transport.called
    /\ transport' = [transport EXCEPT
           !.called = TRUE,
           !.performRequest = IF transport.secure THEN "requestHttps"
                              ELSE "requestHttp",
           !.requestOps = RequestOps(transport.body),
           !.writePending = ~IsNullish(transport.body)]
    /\ TransportFrame

\* The response callback: the headers have arrived.
OnResponse ==
    /\ transport.called /\ ~transport.responded
    /\ transport' = [transport EXCEPT !.responded = TRUE, !.result = <<>>]
    /\ TransportFrame

\* response 'data'
OnData(chunk) ==
    /\ transport.called /\ transport.responded /\ ~transport.responseEnded
    /\ Len(transport.delivered) < MaxChunks
    /\ transport' = [transport EXCEPT
           !.result = AppendChunk(transport.result, chunk),
           !.delivered = Append(transport.delivered, chunk)]
    /\ TransportFrame

\* response 'end'
OnEnd ==
    /\ transport.called /\ transport.responded /\ ~transport.responseEnded
    /\ transport' = [transport EXCEPT
           !.responseEnded = TRUE,
           !.promise = Settle(transport.promise,
               Fulfilled(EndValue(IncomingMessage, transport.result)))]
    /\ TransportFrame

\* response 'error'
OnResponseError ==
    /\ transport.called /\ transport.responded /\ ~transport.responseErrored
    /\ transport' = [transport EXCEPT
           !.responseErrored = TRUE,
           !.failures = Append(transport.failures, ResponseError),
           !.failedBeforeEnd = transport.failedBeforeEnd
                               \/ ~transport.responseEnded,
           !.promise = Settle(transport.promise, Rejected(ResponseError))]
    /\ TransportFrame

\* request 'error'
OnRequestError ==
    /\ transport.called /\ ~transport.requestErrored
    /\ transport' = [transport EXCEPT
           !.requestErrored = TRUE,
           !.failures = Append(transport.failures, RequestError),
           !.failedBeforeEnd = transport.failedBeforeEnd
                               \/ ~transport.responseEnded,
           !.promise = Settle(transport.promise, Rejected(RequestError))]
    /\ TransportFrame

\* The callback of request.write(body, reject) is called with `err`.
OnWriteCallback(err) ==
    /\ transport.called /\ transport.writePending
    /\ transport' = [transport EXCEPT
           !.writePending = FALSE,
           !.failures = IF err \in WriteSucceeded THEN transport.failures
                         ELSE Append(transport.failures, err),
           !.failedBeforeEnd =
               transport.failedBeforeEnd
               \/ (err \notin WriteSucceeded /\ ~transport.responseEnded),
           !.promise = Settle(transport.promise, Rejected(err))]
    /\ TransportFrame

TransportNext ==
    \/ AsyncRequestCall
    \/ OnResponse
    \/ \E chunk \in Chunks : OnData(chunk)
    \/ OnEnd
    \/ OnResponseError
    \/ OnRequestError
    \/ \E err \in WriteSucceeded \cup {WriteError} : OnWriteCallback(err)

SpecTransport == TransportInit /\ [][TransportNext]_vars

----------------------------------------------------------------------------
(* Properties.                                                             *)

\* An absolute URL: it starts with 'http:' or 'https:'.
IsAbsolute(url) ==
    url.kind = "string"
    /\ (StartsWith(url.chars, HttpColon) \/ StartsWith(url.chars, HttpsColon))

\* A base URL that is present (neither undefined nor null) without a protocol.
ProtocolLess(baseUrl) == ~IsNullish(baseUrl) /\ ~IsAbsolute(baseUrl)

\* The request called requestFn: option filling did not throw.
PassedFilling(q) == q.filledOptions # Undefined

\* The request has a relative url and its client has no baseUrl.
RelativeWithoutBase(self, options) ==
    ~IsAbsolute(options.url) /\ IsNullish(Get(self.options, "baseUrl"))

\* C1: every Response has an absolute requestOptions.url, and that URL is the
\* one request() handed to the transport function.
C1_ResponseUrlAbsolute ==
    \A r \in 1..Len(requests) :
        LET q == requests[r]
        IN q.promise.state = "fulfilled" =>
               /\ IsAbsolute(q.promise.value.requestOptions.url)
               /\ Len(q.invocations) = 1
               /\ q.invocations[1].url = q.promise.value.requestOptions.url
               /\ q.invocations[1].fn = clients[q.self].requestFn

C1_Witness ==
    \E r \in 1..Len(requests) :
        /\ requests[r].promise.state = "fulfilled"
        /\ ~IsAbsolute(requests[r].options.url)
        /\ requests[r].self = 2
        /\ "limiter" \in DOMAIN clients[2].options

RECURSIVE StripTrailingSlashes(_)
StripTrailingSlashes(s) ==
    IF s # <<>> /\ s[Len(s)] = "/"
    THEN StripTrailingSlashes(SubSeq(s, 1, Len(s) - 1))
    ELSE s

RECURSIVE StripLeadingSlashes(_)
StripLeadingSlashes(s) ==
    IF s # <<>> /\ Head(s) = "/" THEN StripLeadingSlashes(Tail(s)) ELSE s

JoinedUrl(base, url) ==
    StripTrailingSlashes(base) \o <<"/">> \o StripLeadingSlashes(url)

ResolvedUrl(base, url) ==
    fillRequestOptionDefaults([url |-> Str(url)],
                              [baseUrl |-> Str(base)]).value.url.chars

\* C2: a url without a protocol resolves to the base URL without its trailing
\* slashes, one slash, and the url without its leading slashes, so that the
\* number of trailing slashes of the base URL and of leading slashes of the
\* url (the url staying without a protocol) does not change the result; a url
\* with a protocol is left as it is.
C2_UrlResolution ==
    fillResult.called =>
        LET url == fillArgs.options.url
            baseUrl == Get(fillArgs.clientOptions, "baseUrl")
            out == fillResult.completion
        IN /\ IsAbsolute(url) => ~out.threw /\ out.value.url = url
           /\ (~IsAbsolute(url) /\ ~IsNullish(baseUrl)) =>
                  /\ ~out.threw
                  /\ out.value.url = Str(JoinedUrl(baseUrl.chars, url.chars))
                  /\ \A j \in 0..MaxSlashes, k \in 0..MaxSlashes :
                         LET b == StripTrailingSlashes(baseUrl.chars)
                                      \o Slashes(k)
                             u == Slashes(j) \o StripLeadingSlashes(url.chars)
                         IN ~IsAbsolute(Str(u)) =>
                                Str(ResolvedUrl(b, u)) = out.value.url

C2_Witness ==
    /\ fillResult.called
    /\ ~fillResult.completion.threw
    /\ StartsWith(fillArgs.options.url.chars, <<"/", "/", "c">>)
    /\ "baseUrl" \in DOMAIN fillArgs.clientOptions
    /\ fillArgs.clientOptions.baseUrl =
           Str(HttpsColon \o <<"/", "/", "a", "/", "b", "/", "/">>)

\* The baseUrl a construction is asked for: that of the options of
\* new WebClient, or for extend that of the overrides when they have the key
\* and otherwise the parent's.
RequestedBaseUrl ==
    IF lastCall.op = "extend" /\ "baseUrl" \notin DOMAIN lastCall.args
    THEN Get(clients[lastCall.self].options, "baseUrl")
    ELSE Get(lastCall.args, "baseUrl")

C3_State ==
    /\ \A i \in 1..Len(clients) :
           ~ProtocolLess(Get(clients[i].options, "baseUrl"))
    /\ (lastCall.op \in {"new", "extend"} /\ ProtocolLess(RequestedBaseUrl)) =>
           /\ lastCall.completion.threw
           /\ lastCall.completion.value.name = "TypeError"

C3_Step ==
    (lastCall'.op \in {"new", "extend"} /\ lastCall'.completion.threw) =>
        clients' = clients

\* C3: a construction, direct or by extend(), with a baseUrl that is present
\* and has no protocol throws a TypeError and adds no client, and no client
\* ever has such a baseUrl.
C3_ProtocolLessBaseUrlFails == [](C3_State) /\ [][C3_Step]_vars

C3_Witness ==
    /\ lastCall.op = "extend"
    /\ lastCall.completion.threw
    /\ "baseUrl" \in DOMAIN lastCall.args

\* C4: a request with a relative url on a client whose options have no baseUrl
\* fails with the TypeError and never calls the transport function, whatever
\* the request options hold.
C4_RelativeUrlWithoutBaseUrl ==
    \A r \in 1..Len(requests) :
        LET q == requests[r]
        IN RelativeWithoutBase(clients[q.self], q.options) =>
               /\ q.promise.state = "rejected"
               /\ q.promise.value.name = "TypeError"
               /\ q.invocations = <<>>
               /\ q.requestFnPromise = Undefined

C4_Witness ==
    \E r \in 1..Len(requests) :
        /\ RelativeWithoutBase(clients[requests[r].self], requests[r].options)
        /\ "baseUrl" \in DOMAIN requests[r].options
        /\ "limiter" \in DOMAIN clients[requests[r].self].options

\* C5 as stated: both configuration errors are thrown by the call itself, the
\* constructor's and request()'s.
C5_ThrownSynchronously ==
    /\ (lastCall.op = "new" /\ ProtocolLess(Get(lastCall.args, "baseUrl"))) =>
           lastCall.completion.threw
    /\ (lastCall.op = "request"
        /\ RelativeWithoutBase(clients[lastCall.self], lastCall.args)) =>
           lastCall.completion.threw

\* C5, amended: the constructor throws its TypeError from the call itself;
\* request() never throws from the call: for a relative url without baseUrl it
\* returns a promise that is already rejected with the TypeError, and an error
\* of the transport function rejects the promise too.
C5_ConstructorThrowsRequestRejects ==
    /\ (lastCall.op = "new" /\ ProtocolLess(Get(lastCall.args, "baseUrl"))) =>
           lastCall.completion = Throw(BaseUrlTypeError)
    /\ lastCall.op = "request" =>
           /\ ~lastCall.completion.threw
           /\ lastCall.completion.value \in 1..Len(requests)
           /\ RelativeWithoutBase(clients[lastCall.self], lastCall.args) =>
                  requests[lastCall.completion.value].promise =
                      Rejected(UrlTypeError)
    /\ \A r \in 1..Len(requests) :
           (requests[r].requestFnPromise # Undefined
            /\ requests[r].requestFnPromise.state = "rejected") =>
               requests[r].promise.state = "rejected"

C5_Witness ==
    /\ lastCall.op = "request"
    /\ RelativeWithoutBase(clients[lastCall.self], lastCall.args)
    /\ ~lastCall.completion.threw

C6_State ==
    /\ (lastCall.op = "extend" /\ ~lastCall.completion.threw) =>
           LET parent == clients[lastCall.self].options
               child == clients[lastCall.completion.value].options
           IN /\ lastCall.completion.value # lastCall.self
              /\ DOMAIN child = (DOMAIN parent) \cup (DOMAIN lastCall.args)
              /\ \A k \in DOMAIN lastCall.args : child[k] = lastCall.args[k]
              /\ \A k \in (DOMAIN parent) \ (DOMAIN lastCall.args) :
                     child[k] = parent[k]
    /\ \A r \in 1..Len(requests) :
           LET q == requests[r]
               own == clients[q.self].options
           IN PassedFilling(q) =>
                  /\ "method" \notin DOMAIN q.options =>
                         q.filledOptions.method =
                             IF IsNullish(Get(own, "defaultMethod"))
                             THEN Method_get ELSE own.defaultMethod
                  /\ ~IsAbsolute(q.options.url) =>
                         StartsWith(q.filledOptions.url.chars,
                                    StripTrailingSlashes(own.baseUrl.chars))
                  /\ q.invocations[1].fn = clients[q.self].requestFn

C6_Step ==
    /\ Len(clients') >= Len(clients)
    /\ \A i \in 1..Len(clients) : clients'[i] = clients[i]

\* C6: extend(overrides) returns a new client whose options are the parent's
\* with every key of the overrides replaced, no step changes the options or
\* the transport function of a client that exists, and every request uses the
\* baseUrl, default method and transport function of its own client.
C6_ExtendLeavesParent == [](C6_State) /\ [][C6_Step]_vars

C6_Witness ==
    /\ Len(clients) = 2
    /\ "defaultMethod" \notin DOMAIN clients[1].options
    /\ Get(clients[2].options, "defaultMethod") = Method_post
    /\ Get(clients[2].options, "baseUrl") = Get(clients[1].options, "baseUrl")
    /\ lastCall.op = "request"
    /\ lastCall.self = 1
    /\ "method" \notin DOMAIN lastCall.args
    /\ ~IsAbsolute(lastCall.args.url)
    /\ PassedFilling(requests[1])
    /\ requests[1].filledOptions.method = Method_get

\* C7: a request that passes option filling calls the transport function
\* once, and when that call rejects with E the request rejects with E itself
\* and no Response is produced.
C7_TransportErrorUnmodified ==
    \A r \in 1..Len(requests) :
        LET q == requests[r]
        IN PassedFilling(q) =>
               /\ Len(q.invocations) = 1
               /\ q.requestFnPromise.state = "rejected" =>
                      q.promise = Rejected(q.requestFnPromise.value)
               /\ q.promise.state = "fulfilled" =>
                      q.requestFnPromise.state = "fulfilled"

C7_Witness ==
    \E r \in 1..Len(requests) :
        /\ PassedFilling(requests[r])
        /\ requests[r].requestFnPromise.state = "rejected"
        /\ requests[r].promise.value \in TransportErrors

\* The method C9 expects: the one of the request options when the caller
\* supplied one, otherwise defaultMethod when it is set, otherwise GET.
ExpectedMethod(options, clientOptions) ==
    IF ~IsNullish(Get(options, "method")) THEN options.method
    ELSE IF ~IsNullish(Get(clientOptions, "defaultMethod"))
         THEN clientOptions.defaultMethod
         ELSE Method_get

\* C9: the method sent to the transport and reported in requestOptions.method
\* is the request's, else the client's defaultMethod, else GET, and is never
\* undefined.
C9_EffectiveMethod ==
    \A r \in 1..Len(requests) :
        LET q == requests[r]
            expected == ExpectedMethod(q.options, clients[q.self].options)
        IN PassedFilling(q) =>
               /\ q.filledOptions.method = expected
               /\ q.invocations[1].options.method = expected
               /\ q.filledOptions.method # Undefined

RECURSIVE Concatenation(_)
Concatenation(chunks) ==
    IF chunks = <<>> THEN <<>>
    ELSE Head(chunks) \o Concatenation(Tail(chunks))

C8_State ==
    /\ transport.promise.state = "fulfilled" =>
           /\ transport.responseEnded
           /\ transport.promise.value.rawData =
                  Str(Concatenation(transport.delivered))
    /\ transport.failedBeforeEnd => transport.promise.state = "rejected"

C8_Step == transport.promise.state # "pending" =>
               transport'.promise = transport.promise

\* C8: under every interleaving of the events the promise of a transport call
\* settles at most once; when it is fulfilled, rawData is the concatenation in
\* arrival order of the chunks delivered before 'end'; and after a failure
\* event before the end of the response the promise is rejected, and no
\* response value is delivered.
C8_SettledOnceNoPartialResponse == [](C8_State) /\ [][C8_Step]_vars

C8_Witness ==
    /\ transport.failedBeforeEnd
    /\ transport.responseEnded
    /\ Len(transport.delivered) = 2
    /\ transport.delivered[1] # transport.delivered[2]
    /\ transport.promise.state = "rejected"

\* C10: the transport rejects only after a failure (response error, request
\* error or failed write); a non-null body is written once, before the end of
\* the request; and when the write succeeded and the response ended without a
\* failure the promise is fulfilled with the buffered response.
C10_RejectsOnlyOnFailure ==
    /\ transport.promise.state = "rejected" => transport.failures # <<>>
    /\ (transport.called /\ ~IsNullish(transport.body)) =>
           /\ Len(transport.requestOps) = 2
           /\ transport.requestOps[1].op = "write"
           /\ transport.requestOps[1].chunk = transport.body
           /\ transport.requestOps[2].op = "end"
    /\ (transport.called /\ transport.responseEnded
        /\ ~transport.writePending /\ transport.failures = <<>>) =>
           /\ transport.promise.state = "fulfilled"
           /\ transport.promise.value.rawData =
                  Str(Concatenation(transport.delivered))

====
